---- MODULE Spec2Model ----
(***************************************************************************)
(* Model of the contact form controller of Web/js/main.js (ContactForm):   *)
(* the submit handler with its network request and mailto fallback, the    *)
(* status display with its two hide timers, and the per-field validation.  *)
(*                                                                         *)
(* Text the program inspects or transforms character by character (field   *)
(* values, the mailto URL) is a sequence of one-character strings; text    *)
(* that is only stored and compared (labels, status messages) is a string. *)
(***************************************************************************)
EXTENDS Integers, Sequences, FiniteSets, TLC

\* ------------------------------------------------------------ bounds ----
\* Number of submit events handled in one run.
MaxSubmits == 2
\* Number of submit events handled in one run of the form specification.
MaxFormSubmits == 1
\* Longest field value enumerated by the validation specification.
MaxLen == 5
\* Calls of toggleTheme in one run.
MaxToggles == 3
\* Changes of the system colour scheme in one run.
MaxSchemeChanges == 2

\* --------------------------------------------------- program constants ----
\* setTimeout(() => this.hideStatus(), 5000)
HideDelay == 5000
\* setTimeout(() => { clear text and class }, 300)
ClearDelay == 300
\* Granularity of the clock: both delays are multiples of it.
Quantum == ClearDelay \div 3

IdleLabel == "Send Message"
SendingLabel == "Sending..."
ThankYouMessage == "Thank you! Your message has been sent."
OpeningMessage == "Opening your email client..."
\* className of the status display, as its list of class names.
PlainStatusClass == <<"form-status">>
StatusClass(type) == <<"form-status", type>>

InvalidEmailMessage == "Please enter a valid email address."
RequiredTextMessage == "This field is required."
RequiredTextareaMessage == "Please enter your message."

MailtoPrefix == <<"m", "a", "i", "l", "t", "o", ":", "h", "e", "l", "l", "o", "@", "a", "l", "e", "x", "d", "o", "e", ".", "d", "e", "v", "?", "s", "u", "b", "j", "e", "c", "t", "=">>
BodyParam == <<"&", "b", "o", "d", "y", "=">>
SubjectPrefix == <<"P", "o", "r", "t", "f", "o", "l", "i", "o", " ", "C", "o", "n", "t", "a", "c", "t", " ", "f", "r", "o", "m", " ">>
NameLabel == <<"N", "a", "m", "e", ":", " ">>
EmailLabel == <<"\n", "E", "m", "a", "i", "l", ":", " ">>
MessageLabel == <<"\n", "\n", "M", "e", "s", "s", "a", "g", "e", ":", "\n">>

\* ------------------------------------------------------------- strings ----
EmptyStr == << >>

\* \s of the regular expression and of String.prototype.trim, as far as the
\* modelled alphabet goes.
IsSpace(c) == c \in {" ", "\n", "\t"}

RECURSIVE TrimStart(_)
TrimStart(s) ==
    IF s = << >> THEN << >>
    ELSE IF IsSpace(Head(s)) THEN TrimStart(Tail(s))
    ELSE s

RECURSIVE TrimEnd(_)
TrimEnd(s) ==
    IF s = << >> THEN << >>
    ELSE IF IsSpace(s[Len(s)]) THEN TrimEnd(SubSeq(s, 1, Len(s) - 1))
    ELSE s

\* String.prototype.trim
Trim(s) == TrimEnd(TrimStart(s))

\* A run of the class [^\s@], one or more characters long: s[i..j].
IsPlainRun(s, i, j) ==
    /\ i <= j
    /\ \A k \in i..j : ~IsSpace(s[k]) /\ s[k] # "@"

\* /^[^\s@]+@[^\s@]+\.[^\s@]+$/.test(s)
EmailRegexTest(s) ==
    \E a \in 1..Len(s) : \E d \in 1..Len(s) :
        /\ s[a] = "@"
        /\ s[d] = "."
        /\ a < d
        /\ IsPlainRun(s, 1, a - 1)
        /\ IsPlainRun(s, a + 1, d - 1)
        /\ IsPlainRun(s, d + 1, Len(s))

\* Characters encodeURIComponent leaves alone (those of the modelled alphabet).
Unreserved ==
    { "a", "b", "c", "d", "e", "f", "g", "h", "i", "j", "k", "l", "m",
      "n", "o", "p", "q", "r", "s", "t", "u", "v", "w", "x", "y", "z",
      "A", "B", "C", "D", "E", "F", "G", "H", "I", "J", "K", "L", "M",
      "N", "O", "P", "Q", "R", "S", "T", "U", "V", "W", "X", "Y", "Z",
      "0", "1", "2", "3", "4", "5", "6", "7", "8", "9",
      "-", "_", ".", "!", "~", "*", "'", "(", ")" }

\* The UTF-8 percent escape of a reserved ASCII character.
PercentEscape(c) ==
    CASE c = " "  -> <<"%", "2", "0">>
      [] c = "\n" -> <<"%", "0", "A">>
      [] c = "\t" -> <<"%", "0", "9">>
      [] c = "%"  -> <<"%", "2", "5">>
      [] c = "&"  -> <<"%", "2", "6">>
      [] c = ":"  -> <<"%", "3", "A">>
      [] c = "="  -> <<"%", "3", "D">>
      [] c = "?"  -> <<"%", "3", "F">>
      [] c = "@"  -> <<"%", "4", "0">>

\* A URL built without escaping.
EncodeNothing(s) == s

RECURSIVE EncodeURIComponent(_)
EncodeURIComponent(s) ==
    IF s = << >> THEN << >>
    ELSE (IF Head(s) \in Unreserved THEN <<Head(s)>> ELSE PercentEscape(Head(s)))
         \o EncodeURIComponent(Tail(s))

\* ---------------------------------------------------------- the form ----
\* The named controls read by handleMailtoFallback.
Fields == {"name", "email", "message"}

\* field.type of each control (the markup is not part of the sources).
FieldType(f) ==
    CASE f = "name"    -> "text"
      [] f = "email"   -> "email"
      [] f = "message" -> "textarea"

\* field.hasAttribute('required') of each control.
FieldRequired(f) == TRUE

\* The value form.reset() gives a control back: its default value.
DefaultValue(f) == EmptyStr

\* Values the user types into each control.
NameValues == { EmptyStr, <<"J", "o">> }
EmailValues == { EmptyStr, <<"b", "a", "d">>, <<"a", "@", "b", ".", "c">> }
MessageValues == { EmptyStr, <<"h", "i", " ", "&", "?">> }
FieldValues(f) ==
    CASE f = "name"    -> NameValues
      [] f = "email"   -> EmailValues
      [] f = "message" -> MessageValues

\* Outcomes of fetch: a 2xx response, another response, a rejected promise.
Outcomes == {"ok", "http_error", "network_error"}

VARIABLES
    value,        \* field.value of each control
    errClass,     \* whether field.classList contains 'error'
    errMsg,       \* texts of the .field-error elements under field.parentNode
    button,       \* the submit button: disabled, textContent
    status,       \* #form-status: textContent, className, style.opacity
    timers,       \* pending setTimeout callbacks, in creation order
    inflight,     \* fetch calls awaiting their response, with their FormData
    requests,     \* number of fetch calls made
    href,         \* window.location.href
    navigations,  \* number of assignments to window.location.href
    showGen,      \* number of showStatus calls: names the status on display
    probe,        \* a control on its own: its type, required flag and value,
                  \* and what validateField returned and displayed on it
    dom,          \* which of #contact-form and #form-status the document has
    initDone,     \* whether ContactForm.init has run
    listeners,    \* the event listeners bindEvents has registered
    rejections,   \* handleSubmit promises that were rejected (the handler threw)
    theme         \* ThemeManager (currentTheme, whether #theme-toggle exists and
                  \* its aria-label), the data-theme attribute, the stored
                  \* 'theme' item, the system colour scheme, and the history
                  \* the theme properties speak about: the item at page load,
                  \* the toggles and scheme changes so far, the last event and
                  \* currentTheme before it

vars == <<value, errClass, errMsg, button, status, timers, inflight,
          requests, href, navigations, showGen, probe,
          dom, initDone, listeners, rejections, theme>>

\* What no handler of the form changes.
envVars == <<dom, initDone, listeners, theme>>

formVars == <<value, errClass, errMsg>>
submitVars == <<button, status, timers, inflight, requests, href, navigations, showGen>>

\* window.location.href before any navigation.
PageUrl == <<"/">>

NoProbe ==
    [type |-> "none", required |-> FALSE, value |-> EmptyStr, returned |-> FALSE,
     result |-> TRUE, errClass |-> FALSE, errMsg |-> << >>]

\* ------------------------------------------------------- validateField ----
\* The isValid and message locals of validateField at its return.
ValidateOutcome(type, required, raw) ==
    LET v == Trim(raw) IN
    CASE type = "email" ->
            IF v # EmptyStr /\ ~EmailRegexTest(v)
            THEN [isValid |-> FALSE, message |-> InvalidEmailMessage]
            ELSE [isValid |-> TRUE, message |-> ""]
      [] type = "text" ->
            IF required /\ v = EmptyStr
            THEN [isValid |-> FALSE, message |-> RequiredTextMessage]
            ELSE [isValid |-> TRUE, message |-> ""]
      [] type = "textarea" ->
            IF required /\ v = EmptyStr
            THEN [isValid |-> FALSE, message |-> RequiredTextareaMessage]
            ELSE [isValid |-> TRUE, message |-> ""]
      [] OTHER -> [isValid |-> TRUE, message |-> ""]

\* A showFieldError that appends without removing the existing element.
ShowFieldErrorAppend(msgs, message) == msgs \o <<message>>

\* showFieldError on the .field-error list of the parent: the first existing
\* element is removed, the new one appended.
ShowFieldError(msgs, message) ==
    (IF msgs # << >> THEN Tail(msgs) ELSE msgs) \o <<message>>

\* clearFieldError on the .field-error list of the parent.
ClearFieldError(msgs) ==
    IF msgs # << >> THEN Tail(msgs) ELSE msgs

\* The error class of the field after validateField.
ValidatedClass(outcome) == ~outcome.isValid

\* The .field-error list after validateField.
ValidatedMessages(msgs, outcome) ==
    IF ~outcome.isValid THEN ShowFieldError(msgs, outcome.message) ELSE msgs

\* ------------------------------------------------------ status display ----
\* hideStatus: fade out now, clear text and class ClearDelay later.
HideStatusDisplay(st) == [st EXCEPT !.opacity = "0"]
HideStatusTimers(ts, gen) == Append(ts, [kind |-> "clear", rem |-> ClearDelay, gen |-> gen])

\* The callback hideStatus schedules.
ClearStatusDisplay(st) == [st EXCEPT !.textContent = "", !.className = PlainStatusClass]

\* showStatus: text, class and opacity now, hideStatus HideDelay later.
ShowStatusDisplay(st, type, message) ==
    [textContent |-> message, className |-> StatusClass(type), opacity |-> "1"]
ShowStatusTimers(ts, gen) == Append(ts, [kind |-> "hide", rem |-> HideDelay, gen |-> gen])

\* ------------------------------------------------------ mailto fallback ----
MailtoSubject(data) == SubjectPrefix \o data["name"]
MailtoBody(data) ==
    NameLabel \o data["name"] \o EmailLabel \o data["email"]
        \o MessageLabel \o data["message"]
MailtoUrl(data) ==
    MailtoPrefix \o EncodeURIComponent(MailtoSubject(data))
        \o BodyParam \o EncodeURIComponent(MailtoBody(data))

\* ---------------------------------------------------------------- Init ----
\* What the user has typed into the form before a run of Spec: nothing, or
\* the three values of the example.
EmptyForm == [f \in Fields |-> DefaultValue(f)]
SampleForm ==
    [f \in Fields |->
        CASE f = "name"    -> <<"J", "o">>
          [] f = "email"   -> <<"a", "@", "b", ".", "c">>
          [] f = "message" -> <<"h", "i", " ", "&", "?">>]
FilledForms == {EmptyForm, SampleForm}

\* The document the spec assumes: the form and the status display exist.
FullDom == [form |-> TRUE, status |-> TRUE]

\* A listener that is registered whether or not the form was found.
BoundAlways(d) == {"submit", "blur", "input"}

\* The listeners ContactForm.init registers: none without the form.
BoundListeners(d) == IF d.form THEN {"submit", "blur", "input"} ELSE {}

\* localStorage.getItem('theme') when the key is absent (null).
NoItem == "<null>"

\* ThemeManager after init on a first visit with a light system scheme.
ThemeIdle ==
    [attribute |-> "light", stored |-> "light", current |-> "light",
     ariaLabel |-> "Switch to dark mode",
     systemDark |-> FALSE, toggle |-> TRUE, storedAtLoad |-> NoItem,
     toggles |-> 0, changes |-> 0, lastEvent |-> "init", beforeLast |-> "undefined"]

\* The modules are initialised on a complete document.
PageReady ==
    /\ dom = FullDom
    /\ initDone = TRUE
    /\ listeners = BoundListeners(FullDom)
    /\ rejections = 0
    /\ theme = ThemeIdle

\* The page after ContactForm.init, the form at its default values.
PageLoaded ==
    /\ PageReady
    /\ value = EmptyForm
    /\ errClass = [f \in Fields |-> FALSE]
    /\ errMsg = [f \in Fields |-> << >>]
    /\ button = [disabled |-> FALSE, textContent |-> IdleLabel]
    /\ status = [textContent |-> "", className |-> PlainStatusClass, opacity |-> ""]
    /\ timers = << >>
    /\ inflight = {}
    /\ requests = 0
    /\ href = PageUrl
    /\ navigations = 0
    /\ showGen = 0
    /\ probe = NoProbe

\* The page with the form filled in and no field error on display (each
\* keystroke ran clearFieldError).
Init ==
    \E form \in FilledForms :
        /\ PageReady
        /\ value = form
        /\ errClass = [f \in Fields |-> FALSE]
        /\ errMsg = [f \in Fields |-> << >>]
        /\ button = [disabled |-> FALSE, textContent |-> IdleLabel]
        /\ status = [textContent |-> "", className |-> PlainStatusClass, opacity |-> ""]
        /\ timers = << >>
        /\ inflight = {}
        /\ requests = 0
        /\ href = PageUrl
        /\ navigations = 0
        /\ showGen = 0
        /\ probe = NoProbe

\* ------------------------------------------------------------- actions ----
\* A handler that sends the form twice.
HandleSubmitTwice ==
    /\ button' = [disabled |-> TRUE, textContent |-> SendingLabel]
    /\ status' = HideStatusDisplay(status)
    /\ timers' = HideStatusTimers(timers, showGen)
    /\ inflight' = inflight \cup {[id |-> requests + 1, data |-> value],
                                  [id |-> requests + 2, data |-> value]}
    /\ requests' = requests + 2
    /\ UNCHANGED <<value, errClass, errMsg, href, navigations, showGen, probe,
                   rejections, envVars>>

\* Whether validateField would accept every control as it is.
AllFieldsValid ==
    \A f \in Fields : ValidateOutcome(FieldType(f), FieldRequired(f), value[f]).isValid

\* A handler that sends only a form whose fields all validate.
HandleSubmitGated ==
    /\ AllFieldsValid
    /\ button' = [disabled |-> TRUE, textContent |-> SendingLabel]
    /\ status' = HideStatusDisplay(status)
    /\ timers' = HideStatusTimers(timers, showGen)
    /\ inflight' = inflight \cup {[id |-> requests + 1, data |-> value]}
    /\ requests' = requests + 1
    /\ UNCHANGED <<value, errClass, errMsg, href, navigations, showGen, probe,
                   rejections, envVars>>

\* handleSubmit up to its await: the button, hideStatus, the fetch call.
HandleSubmit ==
    /\ button' = [disabled |-> TRUE, textContent |-> SendingLabel]
    /\ IF dom.status
       THEN /\ status' = HideStatusDisplay(status)
            /\ timers' = HideStatusTimers(timers, showGen)
            /\ inflight' = inflight \cup {[id |-> requests + 1, data |-> value]}
            /\ requests' = requests + 1
            /\ UNCHANGED rejections
       ELSE \* this.status is null: hideStatus throws before the try block
            /\ rejections' = rejections + 1
            /\ UNCHANGED <<status, timers, inflight, requests>>
    /\ UNCHANGED <<value, errClass, errMsg, href, navigations, showGen, probe, envVars>>

\* A submit event reaches the listener; the handler has no guard of its own.
Submit == requests < MaxSubmits /\ HandleSubmit
FormSubmit == requests < MaxFormSubmits /\ HandleSubmit

\* The branch handleSubmit takes when the fetch settles.
Delivered(outcome) == outcome = "ok"

\* A finally block that leaves the button as the submit left it.
FinallyButtonSkipped == [disabled |-> TRUE, textContent |-> SendingLabel]

\* The button after the finally block.
FinallyButton == [disabled |-> FALSE, textContent |-> IdleLabel]

\* A success branch that does not reset the form.
FormResetSkipped(v) == v

\* form.reset(): every control back at its default value; no input event
\* is fired, the error class and the .field-error elements stay.
FormReset(v) == [f \in Fields |-> DefaultValue(f)]

\* A fallback that reads the controls as they are when it runs.
FallbackDataLive(r) == value

\* What handleMailtoFallback reads: the FormData object built at submit time.
FallbackData(r) == r.data

\* handleSubmit from the settling of its fetch to its end.
Respond(r, outcome) ==
    /\ r \in inflight
    /\ inflight' = inflight \ {r}
    /\ IF Delivered(outcome)
       THEN /\ status' = ShowStatusDisplay(status, "success", ThankYouMessage)
            /\ value' = FormReset(value)
            /\ UNCHANGED <<href, navigations>>
       ELSE /\ href' = MailtoUrl(FallbackData(r))
            /\ navigations' = navigations + 1
            /\ status' = ShowStatusDisplay(status, "success", OpeningMessage)
            /\ UNCHANGED value
    /\ timers' = ShowStatusTimers(timers, showGen + 1)
    /\ showGen' = showGen + 1
    /\ button' = FinallyButton
    /\ UNCHANGED <<errClass, errMsg, requests, probe, rejections, envVars>>

\* Index of the timer that runs next: the oldest one that is due.
DueTimers == { i \in 1..Len(timers) : timers[i].rem = 0 }
NextDue == CHOOSE i \in DueTimers : \A j \in DueTimers : i <= j
RemoveAt(s, i) == SubSeq(s, 1, i - 1) \o SubSeq(s, i + 1, Len(s))

\* A due timer callback runs.
FireTimer ==
    /\ DueTimers # {}
    /\ LET t == timers[NextDue]
           rest == RemoveAt(timers, NextDue)
       IN IF t.kind = "hide"
          THEN /\ status' = HideStatusDisplay(status)
               /\ timers' = HideStatusTimers(rest, t.gen)
          ELSE /\ status' = ClearStatusDisplay(status)
               /\ timers' = rest
    /\ UNCHANGED <<value, errClass, errMsg, button, inflight, requests, href,
                   navigations, showGen, probe, rejections, envVars>>

\* Time passes; a due callback runs before more time passes.
Tick ==
    /\ timers # << >>
    /\ DueTimers = {}
    /\ timers' = [i \in 1..Len(timers) |-> [timers[i] EXCEPT !.rem = @ - Quantum]]
    /\ UNCHANGED <<value, errClass, errMsg, button, status, inflight, requests,
                   href, navigations, showGen, probe, rejections, envVars>>

\* A blur listener that validates every control of the form.
BlurAll(f) ==
    /\ errClass' = [g \in Fields |->
          ValidatedClass(ValidateOutcome(FieldType(g), FieldRequired(g), value[g]))]
    /\ errMsg' = [g \in Fields |->
          ValidatedMessages(errMsg[g],
              ValidateOutcome(FieldType(g), FieldRequired(g), value[g]))]
    /\ UNCHANGED <<value, submitVars, probe, rejections, envVars>>

\* The blur listener: validateField(input).
Blur(f) ==
    /\ LET outcome == ValidateOutcome(FieldType(f), FieldRequired(f), value[f]) IN
        /\ errClass' = [errClass EXCEPT ![f] = ValidatedClass(outcome)]
        /\ errMsg' = [errMsg EXCEPT ![f] = ValidatedMessages(@, outcome)]
    /\ UNCHANGED <<value, submitVars, probe, rejections, envVars>>

\* The user edits a control; the input listener: clearFieldError(input).
Input(f, v) ==
    /\ v \in FieldValues(f)
    /\ v # value[f]
    /\ value' = [value EXCEPT ![f] = v]
    /\ errClass' = [errClass EXCEPT ![f] = FALSE]
    /\ errMsg' = [errMsg EXCEPT ![f] = ClearFieldError(@)]
    /\ UNCHANGED <<submitVars, probe, rejections, envVars>>

\* The submission life cycle in real time: the form was filled in before the
\* run and is not edited during it.
Next ==
    \/ Submit
    \/ \E r \in inflight : \E o \in Outcomes : Respond(r, o)
    \/ FireTimer
    \/ Tick

Spec == Init /\ [][Next]_vars

\* The same with every submit event coming from the submit button, which the
\* browser does not activate while it is disabled.
ButtonSubmit == ~button.disabled /\ Submit

ButtonNext ==
    \/ ButtonSubmit
    \/ \E r \in inflight : \E o \in Outcomes : Respond(r, o)
    \/ FireTimer
    \/ Tick

ButtonSpec == Init /\ [][ButtonNext]_vars

\* The form events in any order, all within one clock quantum.
FormNext ==
    \/ FormSubmit
    \/ \E r \in inflight : \E o \in Outcomes : Respond(r, o)
    \/ \E f \in Fields : Blur(f)
    \/ \E f \in Fields : \E v \in FieldValues(f) : Input(f, v)

FormSpec == PageLoaded /\ [][FormNext]_vars

\* The documents ContactForm.init may find: each of #contact-form and
\* #form-status present or not.
Doms == [form : BOOLEAN, status : BOOLEAN]

\* A document just parsed, before ContactForm.init.
DomInit ==
    /\ dom \in Doms
    /\ initDone = FALSE
    /\ listeners = {}
    /\ rejections = 0
    /\ theme = ThemeIdle
    /\ value = EmptyForm
    /\ errClass = [f \in Fields |-> FALSE]
    /\ errMsg = [f \in Fields |-> << >>]
    /\ button = [disabled |-> FALSE, textContent |-> IdleLabel]
    /\ status = [textContent |-> "", className |-> PlainStatusClass, opacity |-> ""]
    /\ timers = << >>
    /\ inflight = {}
    /\ requests = 0
    /\ href = PageUrl
    /\ navigations = 0
    /\ showGen = 0
    /\ probe = NoProbe

\* ContactForm.init: looks the two elements up, binds if the form exists.
ContactFormInit ==
    /\ ~initDone
    /\ initDone' = TRUE
    /\ listeners' = BoundListeners(dom)
    /\ UNCHANGED <<formVars, submitVars, probe, rejections, dom, theme>>

\* The events reach the handlers that were registered.
DomSubmit ==
    /\ "submit" \in listeners
    /\ requests + rejections < MaxFormSubmits
    /\ HandleSubmit

DomBlur(f) == "blur" \in listeners /\ Blur(f)

DomInput(f, v) == "input" \in listeners /\ Input(f, v)

DomNext ==
    \/ ContactFormInit
    \/ DomSubmit
    \/ \E r \in inflight : \E o \in Outcomes : Respond(r, o)
    \/ \E f \in Fields : DomBlur(f)
    \/ \E f \in Fields : \E v \in FieldValues(f) : DomInput(f, v)

DomSpec == DomInit /\ [][DomNext]_vars

\* ----------------------------------------------------------- the theme ----
\* What localStorage may hold under 'theme' when the page loads: nothing, an
\* empty string, a theme, or some other string.
StoredThemes == {NoItem, "", "light", "dark", "blue"}

\* JavaScript falsiness of what getItem returns.
Falsy(item) == item \in {NoItem, ""}

\* getSystemTheme.
GetSystemTheme(t) == IF t.systemDark THEN "dark" ELSE "light"

\* A setTheme that does not write the theme to localStorage.
SetThemeUnstored(t, th) ==
    [t EXCEPT !.attribute = th, !.current = th]

\* setTheme.
SetTheme(t, th) ==
    [t EXCEPT !.attribute = th,
              !.stored = th,
              !.current = th,
              !.ariaLabel = IF t.toggle
                            THEN (IF th = "dark" THEN "Switch to light mode"
                                                 ELSE "Switch to dark mode")
                            ELSE @]

\* The page before initializeApp: the form is left alone in this
\* specification.
ThemeLoad ==
    /\ \E item \in StoredThemes : \E dark \in BOOLEAN : \E tog \in BOOLEAN :
         theme = [attribute |-> "none", stored |-> item, current |-> "undefined",
                  ariaLabel |-> "none",
                  systemDark |-> dark, toggle |-> tog, storedAtLoad |-> item,
                  toggles |-> 0, changes |-> 0, lastEvent |-> "load",
                  beforeLast |-> "undefined"]
    /\ dom = FullDom
    /\ initDone = FALSE
    /\ listeners = {}
    /\ rejections = 0
    /\ value = EmptyForm
    /\ errClass = [f \in Fields |-> FALSE]
    /\ errMsg = [f \in Fields |-> << >>]
    /\ button = [disabled |-> FALSE, textContent |-> IdleLabel]
    /\ status = [textContent |-> "", className |-> PlainStatusClass, opacity |-> ""]
    /\ timers = << >>
    /\ inflight = {}
    /\ requests = 0
    /\ href = PageUrl
    /\ navigations = 0
    /\ showGen = 0
    /\ probe = NoProbe

notThemeVars == <<formVars, submitVars, probe, rejections, dom, initDone, listeners>>

\* ThemeManager.init.
ThemeManagerInit ==
    /\ theme.lastEvent = "load"
    /\ theme' = [SetTheme(theme, IF Falsy(theme.stored)
                                 THEN GetSystemTheme(theme)
                                 ELSE theme.stored)
                   EXCEPT !.lastEvent = "init", !.beforeLast = theme.current]
    /\ UNCHANGED notThemeVars

\* toggleTheme.
ToggleTheme ==
    /\ theme.lastEvent # "load"
    /\ theme.toggles < MaxToggles
    /\ theme' = [SetTheme(theme, IF theme.current = "dark" THEN "light" ELSE "dark")
                   EXCEPT !.toggles = @ + 1,
                          !.lastEvent = "toggle",
                          !.beforeLast = theme.current]
    /\ UNCHANGED notThemeVars

\* A click on #theme-toggle, if the document has it.
ClickToggle == theme.toggle /\ ToggleTheme

\* Alt+T.
AltT == ToggleTheme

\* The system colour scheme changes; after init the change listener runs.
SchemeChange ==
    /\ theme.changes < MaxSchemeChanges
    /\ LET t == [theme EXCEPT !.systemDark = ~@,
                              !.changes = @ + 1,
                              !.lastEvent = IF theme.lastEvent = "load" THEN @ ELSE "change",
                              !.beforeLast = IF theme.lastEvent = "load" THEN @ ELSE theme.current]
       IN theme' = IF theme.lastEvent # "load" /\ Falsy(theme.stored)
                   THEN SetTheme(t, GetSystemTheme(t))
                   ELSE t
    /\ UNCHANGED notThemeVars

ThemeNext ==
    \/ ThemeManagerInit
    \/ ClickToggle
    \/ AltT
    \/ SchemeChange

ThemeSpec == ThemeLoad /\ [][ThemeNext]_vars

\* ------------------------------------------- validateField on its own ----
\* Characters of the enumerated field values: a plain one, the two the
\* pattern names, and white space.
Alphabet == {"a", "@", ".", " "}
FieldTypes == {"email", "text", "textarea"}

RECURSIVE StringsOfLength(_)
StringsOfLength(n) ==
    IF n = 0 THEN { << >> }
    ELSE { <<c>> \o s : c \in Alphabet, s \in StringsOfLength(n - 1) }

Strings == UNION { StringsOfLength(n) : n \in 0..MaxLen }

\* A control of some type, required flag and value that shows no error, on
\* which validateField has not run yet.
ValidateInit ==
    /\ PageReady
    /\ value = EmptyForm
    /\ errClass = [f \in Fields |-> FALSE]
    /\ errMsg = [f \in Fields |-> << >>]
    /\ button = [disabled |-> FALSE, textContent |-> IdleLabel]
    /\ status = [textContent |-> "", className |-> PlainStatusClass, opacity |-> ""]
    /\ timers = << >>
    /\ inflight = {}
    /\ requests = 0
    /\ href = PageUrl
    /\ navigations = 0
    /\ showGen = 0
    /\ \E type \in FieldTypes : \E required \in BOOLEAN : \E v \in Strings :
          probe = [NoProbe EXCEPT !.type = type, !.required = required, !.value = v]

\* validateField on that control.
ValidateField ==
    /\ ~probe.returned
    /\ LET outcome == ValidateOutcome(probe.type, probe.required, probe.value) IN
        probe' = [probe EXCEPT !.returned = TRUE,
                               !.result = outcome.isValid,
                               !.errClass = ValidatedClass(outcome),
                               !.errMsg = ValidatedMessages(<< >>, outcome)]
    /\ UNCHANGED <<formVars, submitVars, rejections, envVars>>

ValidateNext == ValidateField

ValidateSpec == ValidateInit /\ [][ValidateNext]_vars

\* ===================================================================== *
\*                               Claims                                  *
\* ===================================================================== *

\* C1: once the request of a submit resolves (2xx, non-2xx or transport
\* error) the submit button is enabled again and shows its idle label, and the
\* button is never left disabled with no request outstanding.
C1_ButtonReenabled ==
    /\ [](inflight = {} =>
            (~button.disabled /\ button.textContent = "Send Message"))
    /\ [][(inflight' # inflight /\ inflight' \subseteq inflight) =>
            (~button'.disabled /\ button'.textContent = "Send Message")]_vars

\* A request has resolved, none is outstanding, the button is enabled.
C1_Witness ==
    /\ requests > 0
    /\ inflight = {}
    /\ showGen = requests
    /\ ~button.disabled
    /\ button.textContent = "Send Message"

\* C2: while a request awaits its response the submit button is disabled
\* and shows the in-progress label, also when several submit events were
\* dispatched.
C2_DisabledWhileInFlight ==
    inflight # {} => (button.disabled /\ button.textContent = "Sending...")

\* C3: at most one request is in flight at a time.
C3_AtMostOneInFlight == Cardinality(inflight) <= 1

\* The hide timer of the status on display, if it is still pending.
OwnHideTimers == { i \in 1..Len(timers) : timers[i].kind = "hide" /\ timers[i].gen = showGen }
OwnClearTimers == { i \in 1..Len(timers) : timers[i].kind = "clear" /\ timers[i].gen = showGen }
StatusVisible == status.opacity = "1" /\ status.textContent # ""

\* C4: a timer left over from the hide sequence of an earlier status never
\* fades out or clears a later status that is on display and whose own
\* 5-second timer has not fired yet.
C4_StaleTimerHarmless ==
    [][(/\ FireTimer
        /\ timers[NextDue].gen >= 1
        /\ timers[NextDue].gen < showGen
        /\ OwnHideTimers # {}
        /\ StatusVisible)
       => (status'.opacity = "1" /\ status'.textContent = status.textContent)]_vars

\* C5: with a single submit, the status shown stays visible with its text
\* until its 5-second timer fires, is then invisible with its text kept for a
\* further 300 ms, and only then has its text emptied and its class reset.
C5_SingleSubmitStatusLifetime ==
    (requests = 1 /\ showGen = 1) =>
        /\ OwnHideTimers # {} =>
              (status.opacity = "1" /\ status.textContent # ""
                 /\ status.className # <<"form-status">>)
        /\ (OwnHideTimers = {} /\ OwnClearTimers # {}) =>
              (status.opacity = "0" /\ status.textContent # ""
                 /\ status.className # <<"form-status">>)
        /\ (OwnHideTimers = {} /\ OwnClearTimers = {}) =>
              (status.opacity = "0" /\ status.textContent = ""
                 /\ status.className = <<"form-status">>)

\* C10: right after submit-start the status display has no text and no
\* outcome classification.
C10_StatusClearedAtSubmit ==
    [][HandleSubmit =>
         (status'.textContent = "" /\ status'.className = <<"form-status">>)]_vars

\* C6: when the request of a submit resolves with a 2xx response, the
\* success status is shown, every field value is cleared, no navigation is
\* performed, and the submit button is enabled.
C6_DeliveredOutcome ==
    [][\A r \in inflight :
         Respond(r, "ok") =>
            /\ status' = [textContent |-> "Thank you! Your message has been sent.",
                          className |-> <<"form-status", "success">>,
                          opacity |-> "1"]
            /\ \A f \in Fields : value'[f] = << >>
            /\ href' = href
            /\ navigations' = navigations
            /\ ~button'.disabled
            /\ button'.textContent = "Send Message"]_vars

\* A form whose email had been typed in (its complaint is still there) was
\* delivered: the success status is on display over an emptied form, the
\* button is enabled, no navigation took place.
C6_Witness ==
    /\ status.textContent = "Thank you! Your message has been sent."
    /\ status.opacity = "1"
    /\ errMsg["email"] = <<"Please enter a valid email address.">>
    /\ \A f \in Fields : value[f] = << >>
    /\ inflight = {}
    /\ navigations = 0
    /\ ~button.disabled

\* The character a percent escape stands for.
PercentDecode(h1, h2) ==
    CASE <<h1, h2>> = <<"2", "0">> -> " "
      [] <<h1, h2>> = <<"0", "A">> -> "\n"
      [] <<h1, h2>> = <<"0", "9">> -> "\t"
      [] <<h1, h2>> = <<"2", "5">> -> "%"
      [] <<h1, h2>> = <<"2", "6">> -> "&"
      [] <<h1, h2>> = <<"3", "A">> -> ":"
      [] <<h1, h2>> = <<"3", "D">> -> "="
      [] <<h1, h2>> = <<"3", "F">> -> "?"
      [] <<h1, h2>> = <<"4", "0">> -> "@"
      [] OTHER -> "<invalid>"

\* Reads u from position i on as the escaped form of plain from position j
\* on (unreserved characters as they are, every other character as its
\* percent escape): the position in u after it, or 0 if u is not that.
RECURSIVE EndOfEscaped(_, _, _, _)
EndOfEscaped(u, i, plain, j) ==
    IF j > Len(plain) THEN i
    ELSE IF i > Len(u) THEN 0
    ELSE IF u[i] = "%"
         THEN IF /\ i + 2 <= Len(u)
                 /\ plain[j] \notin Unreserved
                 /\ PercentDecode(u[i + 1], u[i + 2]) = plain[j]
              THEN EndOfEscaped(u, i + 3, plain, j + 1)
              ELSE 0
         ELSE IF u[i] \in Unreserved /\ u[i] = plain[j]
              THEN EndOfEscaped(u, i + 1, plain, j + 1)
              ELSE 0

\* u is mailto:hello@alexdoe.dev?subject=S&body=B, where S and B are the
\* escaped forms of the subject and body lines of the given field values.
IsMailtoFor(u, data) ==
    LET n == Len(MailtoPrefix)
        subject == SubjectPrefix \o data["name"]
        body == NameLabel \o data["name"] \o EmailLabel \o data["email"]
                    \o MessageLabel \o data["message"]
        amp == EndOfEscaped(u, n + 1, subject, 1)
    IN /\ Len(u) > n
       /\ SubSeq(u, 1, n) = MailtoPrefix
       /\ amp > 0
       /\ amp + Len(BodyParam) - 1 <= Len(u)
       /\ SubSeq(u, amp, amp + Len(BodyParam) - 1) = BodyParam
       /\ EndOfEscaped(u, amp + Len(BodyParam), body, 1) = Len(u) + 1

\* C7: when the request of a submit resolves with a non-2xx response or a
\* transport error, exactly one navigation to the mailto URI of the submitted
\* name, email and message is performed, the fallback status is shown, the
\* field values are kept, the handler runs to its end and the submit button
\* is enabled; both failure kinds give the same result.
C7_FallbackOutcome ==
    [][\A r \in inflight : \A o \in {"http_error", "network_error"} :
         Respond(r, o) =>
            /\ navigations' = navigations + 1
            /\ IsMailtoFor(href', r.data)
            /\ status' = [textContent |-> "Opening your email client...",
                          className |-> <<"form-status", "success">>,
                          opacity |-> "1"]
            /\ value' = value
            /\ inflight' = inflight \ {r}
            /\ ~button'.disabled
            /\ button'.textContent = "Send Message"]_vars

\* A form with characters that need escaping went through the fallback.
C7_Witness ==
    /\ navigations = 1
    /\ status.textContent = "Opening your email client..."
    /\ \E form \in [Fields -> UNION {FieldValues(f) : f \in Fields}] :
         /\ form["message"] = <<"h", "i", " ", "&", "?">>
         /\ form["email"] = <<"a", "@", "b", ".", "c">>
         /\ IsMailtoFor(href, form)
    /\ ~button.disabled
    /\ inflight = {}

\* The pattern of an email address: a non-empty run without white space or
\* @, an @, another such run, a dot, another such run.
EmailShape(s) == EmailRegexTest(s)

\* C8: validateField returns false and attaches an error message exactly
\* when the field is required and its trimmed value is empty, or it is an
\* email field whose non-empty trimmed value fails the email pattern.
C8_ValidateFieldIff ==
    probe.returned =>
        LET v == Trim(probe.value)
            invalid == \/ probe.required /\ v = << >>
                       \/ probe.type = "email" /\ v # << >> /\ ~EmailShape(v)
        IN /\ invalid <=> (~probe.result /\ probe.errMsg # << >>)
           /\ ~invalid => probe.result

\* C9: whenever validateField has just returned true for a field, the field
\* has neither the error class nor an error message, and after every event
\* each field has the error class exactly when it has an error message.
C9_NoErrorWhenValid ==
    [][/\ \A f \in Fields :
            (Blur(f) /\ ValidateOutcome(FieldType(f), FieldRequired(f), value[f]).isValid)
               => (~errClass'[f] /\ errMsg'[f] = << >>)
       /\ \A f \in Fields : errClass'[f] <=> (errMsg'[f] # << >>)]_vars

\* C11: each submit handled issues exactly one request, each request that
\* resolves reaches exactly one of the two outcomes, and nothing else issues
\* a request: a step changes the number of requests only by handling one
\* submit, which adds one request; a step that resolves a request resolves
\* one, and either shows the success status without navigating or navigates
\* once and shows the fallback status; and every request issued is either
\* still in flight or has reached its one outcome.
C11_OneRequestOneOutcome ==
    [][/\ (requests' # requests \/ ~(inflight' \subseteq inflight)) =>
            /\ HandleSubmit
            /\ requests' = requests + 1
            /\ Cardinality(inflight' \ inflight) = 1
            /\ inflight \subseteq inflight'
            /\ navigations' = navigations
            /\ showGen' = showGen
       /\ (inflight' # inflight /\ inflight' \subseteq inflight) =>
            /\ Cardinality(inflight \ inflight') = 1
            /\ requests' = requests
            /\ showGen' = showGen + 1
            /\ \/ /\ status'.textContent = "Thank you! Your message has been sent."
                  /\ navigations' = navigations
               \/ /\ status'.textContent = "Opening your email client..."
                  /\ navigations' = navigations + 1
       /\ inflight' = inflight => (navigations' = navigations /\ showGen' = showGen)
       /\ requests' = Cardinality(inflight') + showGen'
       /\ navigations' <= showGen']_vars

\* Two submits were handled: one request was delivered, one fell back.
C11_Witness ==
    /\ requests = 2
    /\ inflight = {}
    /\ showGen = 2
    /\ navigations = 1

\* C12: with the form present and the status display absent, a submit does
\* not raise, still issues its request, and ends with the button re-enabled.
\* The three parts: the handler's promise is not rejected, one request is
\* issued, and the button is not left disabled with nothing in flight.
C12_SubmitWithoutStatus ==
    [][(HandleSubmit /\ dom.form /\ ~dom.status) =>
          /\ rejections' = rejections
          /\ requests' = requests + 1
          /\ (inflight' = {} => ~button'.disabled)]_vars

\* C13: without the form, ContactForm.init registers no listener and raises
\* nothing, and the form, the status display and the button stay as the
\* document was parsed whatever happens afterwards.
C13_NoFormNoEffect ==
    ~dom.form =>
        /\ listeners = {}
        /\ rejections = 0
        /\ value = EmptyForm
        /\ errClass = [f \in Fields |-> FALSE]
        /\ errMsg = [f \in Fields |-> << >>]
        /\ button = [disabled |-> FALSE, textContent |-> IdleLabel]
        /\ status = [textContent |-> "", className |-> PlainStatusClass, opacity |-> ""]
        /\ timers = << >>
        /\ requests = 0
        /\ inflight = {}
        /\ navigations = 0

\* ContactForm.init has run on a document without the form.
C13_Witness ==
    /\ initDone
    /\ ~dom.form
    /\ listeners = {}

\* C14: the field values are captured when the submit is handled: the
\* request carries the values of that moment, an edit made while it is in
\* flight leaves the request as it is, and the mailto URI of the fallback is
\* built from the captured values, not from the edited ones.
C14_SnapshotAtSubmit ==
    [][/\ HandleSubmit => \A r \in inflight' \ inflight : r.data = value
       /\ \A f \in Fields : \A v \in FieldValues(f) :
            Input(f, v) => inflight' = inflight
       /\ \A f \in Fields : Blur(f) => inflight' = inflight
       /\ \A r \in inflight : \A o \in {"http_error", "network_error"} :
            Respond(r, o) => IsMailtoFor(href', r.data)]_vars

\* The fallback ran after the name was edited in flight: the URI is the one
\* of the submitted values and not the one of the present values.
C14_Witness ==
    /\ navigations = 1
    /\ inflight = {}
    /\ value["name"] = << >>
    /\ IsMailtoFor(href, [value EXCEPT !["name"] = <<"J", "o">>])
    /\ ~IsMailtoFor(href, value)

\* C15: validation does not gate submission: the submit handler can run
\* whatever the fields hold, and when it runs it disables the button, issues
\* the request with the values exactly as they are in the controls, and
\* leaves the error class and the error messages of every field as they were.
C15_SubmitNotGated ==
    [][/\ ENABLED HandleSubmit
       /\ HandleSubmit =>
            /\ button'.disabled
            /\ button'.textContent = "Sending..."
            /\ requests' = requests + 1
            /\ \E r \in inflight' \ inflight : r.data = value
            /\ errClass' = errClass
            /\ errMsg' = errMsg
            /\ value' = value]_vars

\* A request is in flight with an email that validateField rejects, the
\* email control is marked as in error, and the empty name was never marked.
C15_Witness ==
    /\ \E r \in inflight :
         /\ r.data["email"] = <<"b", "a", "d">>
         /\ r.data["name"] = << >>
         /\ ~AllFieldsValid
    /\ button.disabled
    /\ errClass["email"]
    /\ ~errClass["name"]

\* C16: a blur or an input event on one field leaves the error class and the
\* error messages of every other field, the submit button and the status
\* display exactly as they were.
C16_FieldEventsAreLocal ==
    [][\A f \in Fields :
         (Blur(f) \/ \E v \in FieldValues(f) : Input(f, v)) =>
            /\ \A g \in Fields \ {f} :
                 /\ errClass'[g] = errClass[g]
                 /\ errMsg'[g] = errMsg[g]
                 /\ value'[g] = value[g]
            /\ button' = button
            /\ status' = status]_vars

\* The email was rejected on blur while the empty required name and message,
\* never blurred, carry no error; then the message was edited and the email
\* kept its error.
C16_Witness ==
    /\ requests = 0
    /\ errClass["email"] /\ errMsg["email"] = <<"Please enter a valid email address.">>
    /\ ~errClass["name"] /\ errMsg["name"] = << >>
    /\ value["name"] = << >>
    /\ value["message"] # << >>
    /\ ~errClass["message"] /\ errMsg["message"] = << >>

\* C17: a field never has more than one error message element; a failing
\* validation of a field that already shows a message leaves exactly one,
\* the new one; an input event leaves the field with no message and no error
\* class.
C17_AtMostOneMessage ==
    [][/\ \A f \in Fields : Len(errMsg'[f]) <= 1
       /\ \A f \in Fields :
            (Blur(f) /\ errClass'[f]) =>
               errMsg'[f] = <<ValidateOutcome(FieldType(f), FieldRequired(f), value[f]).message>>
       /\ \A f \in Fields : \A v \in FieldValues(f) :
            Input(f, v) => (errMsg'[f] = << >> /\ ~errClass'[f])]_vars

\* Two fields show one message each, and both values are still rejected: a
\* second blur of either is a repeated failing validation.
C17_Witness ==
    /\ Len(errMsg["name"]) = 1
    /\ Len(errMsg["message"]) = 1
    /\ errClass["name"] /\ errClass["message"]
    /\ value["name"] = << >> /\ value["message"] = << >>

\* C18: once ThemeManager.init has run, the data-theme attribute, the stored
\* 'theme' item and currentTheme are equal, whatever toggles follow; from the
\* first toggle on the theme is 'light' or 'dark'; and a toggle that directly
\* follows a toggle made from 'light' or 'dark' restores that theme.
C18_ThemeConsistent ==
    [][/\ theme'.lastEvent # "load" =>
            /\ theme'.attribute = theme'.current
            /\ theme'.stored = theme'.current
       /\ theme'.toggles >= 1 => theme'.current \in {"light", "dark"}
       /\ (ToggleTheme /\ theme.lastEvent = "toggle"
                       /\ theme.beforeLast \in {"light", "dark"}) =>
            theme'.current = theme.beforeLast]_vars

\* A page that loaded with another string stored went blue, dark, light,
\* dark: the last two toggles started from 'dark' and came back to it.
C18_Witness ==
    /\ theme.storedAtLoad = "blue"
    /\ theme.toggles = 3
    /\ theme.lastEvent = "toggle"
    /\ theme.beforeLast = "light"
    /\ theme.current = "dark"
    /\ theme.stored = "dark"
    /\ theme.attribute = "dark"

\* C19: on a page that loaded with nothing stored and on which the user has
\* not toggled, a change of the system colour scheme leaves the applied theme
\* equal to the new system scheme.
C19_FollowsSystem ==
    [][(SchemeChange /\ theme.lastEvent # "load"
                     /\ theme.storedAtLoad = NoItem
                     /\ theme.toggles = 0) =>
          theme'.attribute = GetSystemTheme(theme')]_vars

====
